---- MODULE Spec2Model ----
(***************************************************************************)
(* A model of the proof-of-work chain node of "#2_blockchain_impl":         *)
(* main.rs (Block, calculate_hash, mine_block, App, the event loop) and     *)
(* peers.rs (the floodsub / mdns handlers and the command handlers).        *)
(*                                                                         *)
(* Strings whose characters the code inspects (hashes, payloads, command    *)
(* lines) are sequences of one-character strings; peer identities, topic    *)
(* names and log lines, which the code only compares or emits, are plain    *)
(* strings.                                                                 *)
(***************************************************************************)
EXTENDS Integers, Sequences, FiniteSets, TLC

(***************************************************************************)
(* Bounds of the model.                                                     *)
(***************************************************************************)
\* SHA-256 yields 32 bytes; the model's digest keeps DigestLen of them.
DigestLen == 4
\* mine_block tries the nonces 0, 1, 2, ... ; the model follows it up to MaxNonce.
MaxNonce == 3
\* create-block commands and inbound blocks are delivered while the chain is
\* shorter than MaxChain; the chains of chain-responses have up to MaxChain records.
MaxChain == 2

(***************************************************************************)
(* Characters, hex and the "binary representation".                         *)
(***************************************************************************)
HexDigits == <<"0", "1", "2", "3", "4", "5", "6", "7",
               "8", "9", "a", "b", "c", "d", "e", "f">>

UpperHexDigits == <<"0", "1", "2", "3", "4", "5", "6", "7",
                    "8", "9", "A", "B", "C", "D", "E", "F">>

\* The value of each hex digit as hex::decode reads it: either case.
HexValue ==
    [c \in {HexDigits[i] : i \in 1..16} \cup {UpperHexDigits[i] : i \in 1..16} |->
        IF \E i \in 1..16 : HexDigits[i] = c
        THEN (CHOOSE i \in 1..16 : HexDigits[i] = c) - 1
        ELSE (CHOOSE i \in 1..16 : UpperHexDigits[i] = c) - 1]

\* hex::encode: two lowercase digits per byte.
HexEncode(bytes) ==
    [i \in 1..(2 * Len(bytes)) |->
        IF i % 2 = 1 THEN HexDigits[(bytes[(i + 1) \div 2] \div 16) + 1]
                     ELSE HexDigits[(bytes[i \div 2] % 16) + 1]]

\* hex::decode: Err on an odd length or on a character that is no hex digit.
HexDecode(s) ==
    IF Len(s) % 2 # 0 \/ \E i \in 1..Len(s) : s[i] \notin DOMAIN HexValue
    THEN [ok |-> FALSE, bytes |-> <<>>]
    ELSE [ok |-> TRUE,
          bytes |-> [k \in 1..(Len(s) \div 2) |->
                        16 * HexValue[s[2 * k - 1]] + HexValue[s[2 * k]]]]

\* format!("{:b}", c): the binary digits of c, without leading zeros.
RECURSIVE FormatBinary(_)
FormatBinary(c) ==
    IF c < 2 THEN <<HexDigits[c + 1]>>
    ELSE FormatBinary(c \div 2) \o <<HexDigits[(c % 2) + 1]>>

RECURSIVE hash_to_binary_representation(_)
hash_to_binary_representation(hash) ==
    IF hash = <<>> THEN <<>>
    ELSE FormatBinary(Head(hash)) \o hash_to_binary_representation(Tail(hash))

starts_with(s, prefix) ==
    /\ Len(s) >= Len(prefix)
    /\ SubSeq(s, 1, Len(prefix)) = prefix

DIFFICULTY_PREFIX == <<"0", "0">>

(***************************************************************************)
(* calculate_hash.  The JSON text of {id, previous_hash, data, timestamp,   *)
(* nonce} is hashed with SHA-256.  The model keeps the five values the text *)
(* is made of and replaces SHA-256 by a fixed mixing function of them that  *)
(* yields DigestLen bytes.  The first two bytes are one of three pairs, so  *)
(* that one nonce in three meets the difficulty prefix; the bytes after     *)
(* them carry a 16-bit mix of all five values.                              *)
(***************************************************************************)
CharCodes ==
    <<"0", "1", "2", "3", "4", "5", "6", "7", "8", "9", "a", "b", "c", "d",
      "e", "f", "A", "B", "C", "D", "E", "F", " ", "x", "y", "z", "G", "n",
      "s", "i">>

CharCode ==
    [c \in {CharCodes[i] : i \in 1..Len(CharCodes)} |->
        CHOOSE i \in 1..Len(CharCodes) : CharCodes[i] = c]

RECURSIVE CodeUpTo(_, _)
CodeUpTo(s, n) ==
    IF n = 0 THEN 7
    ELSE (31 * CodeUpTo(s, n - 1) + CharCode[s[n]]) % 65521

StrCode(s) == CodeUpTo(s, Len(s))

LeadingBytes == << <<0, 0>>, <<0, 10>>, <<171, 10>> >>

Sha256(id, timestamp, previous_hash, data, nonce) ==
    LET p == StrCode(previous_hash)
        d == StrCode(data)
        lead == (p + d + 5 * (id % 1000) + 2 * (timestamp % 1000) + nonce) % 3
        mix == (131 * p + 37 * d + 1009 * (id % 1000) + 101 * (timestamp % 1000)
                + 17 * (nonce % 1000)) % 65521
    IN  [k \in 1..DigestLen |->
            IF k <= 2 THEN LeadingBytes[lead + 1][k]
            ELSE IF k = 3 THEN mix % 256
            ELSE IF k = 4 THEN mix \div 256
            ELSE 0]

calculate_hash(id, timestamp, previous_hash, data, nonce) ==
    Sha256(id, timestamp, previous_hash, data, nonce)

(***************************************************************************)
(* mine_block: the first nonce, counting up from 0, whose digest meets the  *)
(* difficulty prefix.  NoNonce when none is found up to MaxNonce.           *)
(***************************************************************************)
NoNonce == [found |-> FALSE, nonce |-> 0, hash |-> <<>>]

RECURSIVE MineFrom(_, _, _, _, _)
MineFrom(nonce, id, timestamp, previous_hash, data) ==
    LET hash == calculate_hash(id, timestamp, previous_hash, data, nonce)
        binary_hash == hash_to_binary_representation(hash)
    IN  IF starts_with(binary_hash, DIFFICULTY_PREFIX)
        THEN [found |-> TRUE, nonce |-> nonce, hash |-> HexEncode(hash)]
        ELSE IF nonce >= MaxNonce THEN NoNonce
        ELSE MineFrom(nonce + 1, id, timestamp, previous_hash, data)

\* mine_block with the hash returned in upper-case hex digits.
mine_block_upper_hex(id, timestamp, previous_hash, data) ==
    LET mined == MineFrom(0, id, timestamp, previous_hash, data)
    IN  [mined EXCEPT !.hash =
            [i \in 1..Len(mined.hash) |->
                IF \E k \in 1..16 : HexDigits[k] = mined.hash[i]
                THEN UpperHexDigits[CHOOSE k \in 1..16 : HexDigits[k] = mined.hash[i]]
                ELSE mined.hash[i]]]

\* mine_block with the nonce counted up before it is returned.
mine_block_nonce_counted_on(id, timestamp, previous_hash, data) ==
    LET mined == MineFrom(0, id, timestamp, previous_hash, data)
    IN  [mined EXCEPT !.nonce = mined.nonce + 1]

\* mine_block with the nonce counted up before the first digest is taken.
mine_block_from_one(id, timestamp, previous_hash, data) ==
    MineFrom(1, id, timestamp, previous_hash, data)

mine_block(id, timestamp, previous_hash, data) ==
    MineFrom(0, id, timestamp, previous_hash, data)

(***************************************************************************)
(* Block, Transaction and the App's chain functions.                        *)
(***************************************************************************)
\* The placeholder hash of the genesis block: 64 zeros for a 32-byte digest.
ZeroHash == [i \in 1..(2 * DigestLen) |-> "0"]

\* Utc::now().timestamp() as the handlers can read it.
Times == {1}

GenesisData == <<"G", "e", "n", "e", "s", "i", "s">>

GenesisBlock(now) ==
    [id |-> 0, timestamp |-> now, previous_hash |-> ZeroHash, nonce |-> 0,
     hash |-> ZeroHash, data |-> GenesisData, transactions |-> <<>>]

\* App::genesis
genesis(chain, now) == Append(chain, GenesisBlock(now))

\* The two transfers handle_create_block puts in every block it mines.
ExampleTransactions ==
    << [amount |-> 10,
        sender |-> "03638e59237924128f9c9be55d435ecfcac3c6f774641b1cf24873ebbacede6098",
        receiver |-> "a8668a61f0d237403fb31545eaa0dcd756dc33a609ecfcc777c8cb2c6dce8247"],
       [amount |-> 10,
        sender |-> "03638e5op1239dnvcnrkdf39rk435ecfcac3c6f774641b1cf24873ebbacede6098",
        receiver |-> "a8668a61ffwef213lasddgtvnb9329rjd4s67aapsfkcfln777c8cb2c6dce8247"] >>

\* Block::new; NoBlock when the nonce search passes MaxNonce.
NoBlock == [id |-> -1]

BlockNew(id, previous_hash, data, transactions, now) ==
    LET mined == mine_block(id, now, previous_hash, data)
    IN  IF ~mined.found THEN NoBlock
        ELSE [id |-> id, hash |-> mined.hash, timestamp |-> now,
              previous_hash |-> previous_hash, data |-> data,
              nonce |-> mined.nonce, transactions |-> transactions]

\* is_block_valid without the comparison of the previous hash.
is_block_valid_unlinked(block, previous_block) ==
    LET decoded == HexDecode(block.hash)
    IN  IF ~decoded.ok
        THEN "panic"
        ELSE IF ~starts_with(hash_to_binary_representation(decoded.bytes),
                             DIFFICULTY_PREFIX)
        THEN "is not the next block after the latest"
        ELSE IF HexEncode(calculate_hash(block.id, block.timestamp,
                                         block.previous_hash, block.data,
                                         block.nonce)) # block.hash
        THEN "has invalid hash"
        ELSE "valid"

\* is_block_valid with the digest compared before the previous hash is.
is_block_valid_digest_first(block, previous_block) ==
    LET decoded == HexDecode(block.hash)
    IN  IF HexEncode(calculate_hash(block.id, block.timestamp, block.previous_hash,
                                    block.data, block.nonce)) # block.hash
        THEN "has invalid hash"
        ELSE IF block.previous_hash # previous_block.hash
        THEN "has wrong previous hash"
        ELSE IF ~decoded.ok
        THEN "panic"
        ELSE IF ~starts_with(hash_to_binary_representation(decoded.bytes),
                             DIFFICULTY_PREFIX)
        THEN "is not the next block after the latest"
        ELSE "valid"

\* App::is_block_valid.  The code returns a bool and logs the reason of a
\* rejection with warn!; hex::decode(..).expect(..) panics on a hash that is
\* not hex.  The result is "valid", the reason logged, or "panic".
is_block_valid(block, previous_block) ==
    LET decoded == HexDecode(block.hash)
    IN  IF block.previous_hash # previous_block.hash
        THEN "has wrong previous hash"
        ELSE IF ~decoded.ok
        THEN "panic"
        ELSE IF ~starts_with(hash_to_binary_representation(decoded.bytes),
                             DIFFICULTY_PREFIX)
        THEN "is not the next block after the latest"
        ELSE IF HexEncode(calculate_hash(block.id, block.timestamp,
                                         block.previous_hash, block.data,
                                         block.nonce)) # block.hash
        THEN "has invalid hash"
        ELSE "valid"

\* App::is_chain_valid: the result of the first pair whose check does not
\* pass, "valid" when every pair passes.
RECURSIVE FirstFailure(_, _)
FirstFailure(chain, i) ==
    IF i > Len(chain) THEN "valid"
    ELSE LET r == is_block_valid(chain[i], chain[i - 1])
         IN  IF r = "valid" THEN FirstFailure(chain, i + 1) ELSE r

\* is_chain_valid with the last pair checked alone.
is_chain_valid_last_pair(chain) ==
    LET r == FirstFailure(chain, IF Len(chain) < 2 THEN 2 ELSE Len(chain))
    IN  IF r \in {"valid", "panic"} THEN r ELSE "invalid"

\* "valid" (true), "invalid" (false) or "panic".
is_chain_valid(chain) ==
    LET r == FirstFailure(chain, 2)
    IN  IF r \in {"valid", "panic"} THEN r ELSE "invalid"

\* What a call leaves: whether it panicked, the chain it returns (or leaves),
\* and the warn! and error! lines it logged.
Panicked(chain, log) == [panicked |-> TRUE, chain |-> chain, log |-> log]

Returned(chain, log) == [panicked |-> FALSE, chain |-> chain, log |-> log]

WarnOf(r) == IF r \in {"valid", "panic"} THEN <<>> ELSE <<r>>

\* choose_chain with the remote chain preferred on a tie.
choose_chain_remote_on_tie(local, remote) ==
    LET local_check == FirstFailure(local, 2)
        remote_check == FirstFailure(remote, 2)
        log == WarnOf(local_check) \o WarnOf(remote_check)
    IN  IF local_check = "panic" \/ remote_check = "panic" THEN Panicked(local, <<>>)
        ELSE IF local_check = "valid" /\ remote_check = "valid"
        THEN IF Len(local) > Len(remote) THEN Returned(local, log)
             ELSE Returned(remote, log)
        ELSE IF remote_check = "valid" THEN Returned(remote, log)
        ELSE IF local_check = "valid" THEN Returned(local, log)
        ELSE Panicked(local, log)

\* choose_chain with the local chain kept where neither chain is valid.
choose_chain_keeps_local(local, remote) ==
    LET local_check == FirstFailure(local, 2)
        remote_check == FirstFailure(remote, 2)
        log == WarnOf(local_check) \o WarnOf(remote_check)
    IN  IF local_check = "valid" /\ remote_check = "valid"
        THEN IF Len(local) >= Len(remote) THEN Returned(local, log)
             ELSE Returned(remote, log)
        ELSE IF remote_check = "valid" THEN Returned(remote, log)
        ELSE Returned(local, log)

\* App::choose_chain.
choose_chain(local, remote) ==
    LET local_check == FirstFailure(local, 2)
        remote_check == FirstFailure(remote, 2)
        is_local_valid == local_check = "valid"
        is_remote_valid == remote_check = "valid"
        log == WarnOf(local_check) \o WarnOf(remote_check)
    IN  IF local_check = "panic" THEN Panicked(local, <<>>)
        ELSE IF remote_check = "panic" THEN Panicked(local, WarnOf(local_check))
        ELSE IF is_local_valid /\ is_remote_valid
        THEN IF Len(local) >= Len(remote) THEN Returned(local, log)
             ELSE Returned(remote, log)
        ELSE IF is_remote_valid /\ ~is_local_valid
        THEN Returned(remote, log)
        ELSE IF ~is_remote_valid /\ is_local_valid
        THEN Returned(local, log)
        ELSE Panicked(local, log)

\* try_add_block with a valid block put in the place of the last block.
try_add_block_replaces_last(chain, block) ==
    IF chain = <<>> THEN Panicked(chain, <<>>)
    ELSE LET r == is_block_valid(block, chain[Len(chain)])
         IN  IF r = "panic" THEN Panicked(chain, <<>>)
             ELSE IF r = "valid"
             THEN Returned([chain EXCEPT ![Len(chain)] = block], <<>>)
             ELSE Returned(chain, <<r, "could not add block - invalid">>)

\* try_add_block without the check of the block.
try_add_block_unchecked(chain, block) ==
    IF chain = <<>> THEN Panicked(chain, <<>>)
    ELSE Returned(Append(chain, block), <<>>)

\* App::try_add_block: an empty chain has no last block, and is_block_valid
\* may panic.
try_add_block(chain, block) ==
    IF chain = <<>> THEN Panicked(chain, <<>>)
    ELSE LET r == is_block_valid(block, chain[Len(chain)])
         IN  IF r = "panic" THEN Panicked(chain, <<>>)
             ELSE IF r = "valid" THEN Returned(Append(chain, block), <<>>)
             ELSE Returned(chain, <<r, "could not add block - invalid">>)

(***************************************************************************)
(* The node: peers.rs and the event loop of main.rs.                        *)
(***************************************************************************)
PEER_ID == "me"

Peers == {"p1", "p2"}

CHAIN_TOPIC == "chains"

BLOCK_TOPIC == "blocks"

VARIABLES
    blocks,        \* App.blocks
    alive,         \* FALSE once a panic has ended the process
    init,          \* the init task and its channel: "sleeping", "sent", "received"
    response_chan, \* response_sender / response_rcv: ChainResponses not yet received
    partial_view,  \* the peers of floodsub's partial view
    mdns_nodes,    \* the peers mdns holds an unexpired address of
    evt,           \* the event select! has yielded and the loop is handling
    out,           \* what the handling of the latest event published: [topic, data]
    log            \* the fixed text of the lines it logged

vars == <<blocks, alive, init, response_chan, partial_view, mdns_nodes, evt, out, log>>

NoEvent == [type |-> "none"]

Last(chain) == chain[Len(chain)]

\* serde_json::from_slice::<T>: a JSON object decodes as T when it has T's
\* fields; fields T does not have are ignored.
DecodesAs(data, fields) == fields \subseteq DOMAIN data

ChainResponseFields == {"blocks", "receiver"}

LocalChainRequestFields == {"from_peer_id"}

BlockFields ==
    {"id", "hash", "previous_hash", "timestamp", "data", "transactions", "nonce"}

(***************************************************************************)
(* The inputs of the model: the blocks and chains other nodes may send.     *)
(***************************************************************************)
RemoteTime == CHOOSE t \in Times : TRUE

Genesis == GenesisBlock(RemoteTime)

OtherHash == [i \in 1..(2 * DigestLen) |-> "f"]

NotHex == <<"z", "z">>

\* A first record that is not the genesis block.
ForeignRoot ==
    [id |-> 3, timestamp |-> RemoteTime, previous_hash |-> OtherHash, nonce |-> 0,
     hash |-> OtherHash, data |-> <<"z">>, transactions |-> <<>>]

\* Blocks well mined on `prev`: by another node's create-block, and by a node
\* that numbers its blocks differently.
NextOn(prev) ==
    BlockNew(prev.id + 1, prev.hash, <<" ", "y">>, ExampleTransactions, RemoteTime)

SkipOn(prev) == BlockNew(prev.id + 5, prev.hash, <<"z">>, <<>>, RemoteTime)

\* The block a chain's next record is checked against; the genesis block
\* stands in for it where the chain is empty.
TipOf(chain) == IF chain = <<>> THEN Genesis ELSE Last(chain)

\* The blocks gossip may bring when `next` is the block mined on the tip: the
\* block itself, then blocks that fail one check each, the last a block that
\* is hashed well but misses the difficulty prefix.
InboundBlocks(chain, next) ==
    LET off == [next EXCEPT !.nonce = next.nonce + 1]
    IN  { next,
          SkipOn(TipOf(chain)),
          [next EXCEPT !.previous_hash = OtherHash],
          [next EXCEPT !.hash = NotHex],
          [next EXCEPT !.data = <<"x">>],
          [off EXCEPT !.hash = HexEncode(calculate_hash(off.id, off.timestamp,
                                   off.previous_hash, off.data, off.nonce))],
          Genesis }

\* The chain of n records of a node that started with genesis and mined on.
RECURSIVE HonestChain(_)
HonestChain(n) ==
    IF n = 0 THEN <<>>
    ELSE IF n = 1 THEN <<Genesis>>
    ELSE LET chain == HonestChain(n - 1)
         IN  Append(chain, NextOn(Last(chain)))

ForeignChain == <<ForeignRoot, NextOn(ForeignRoot)>>

ForgedChain == <<Genesis, [NextOn(Genesis) EXCEPT !.data = <<"x">>]>>

NotHexChain == <<Genesis, [NextOn(Genesis) EXCEPT !.hash = NotHex]>>

\* The chains a chain-response may carry: the honest chain and its prefixes,
\* the node's own chain grown by a block, and chains of other origins.
RemoteChains(chain, next, honest) ==
    { SubSeq(honest, 1, k) : k \in 0..Len(honest) }
    \cup { Append(chain, next) :
             x \in IF chain # <<>> /\ Len(chain) < MaxChain THEN {1} ELSE {} }
    \cup { ForeignChain, ForgedChain, NotHexChain }

FloodsubMessages(chain) ==
    LET next == NextOn(TipOf(chain))
        honest == HonestChain(MaxChain)
    IN  { [source |-> "p1", topic |-> CHAIN_TOPIC,
           data |-> [blocks |-> c, receiver |-> PEER_ID]] :
             c \in RemoteChains(chain, next, honest) }
        \cup { [source |-> "p1", topic |-> CHAIN_TOPIC,
                data |-> [blocks |-> honest, receiver |-> "p2"]],
               [source |-> "p1", topic |-> CHAIN_TOPIC,
                data |-> [blocks |-> honest, receiver |-> "p2",
                          from_peer_id |-> PEER_ID]],
               [source |-> "p1", topic |-> BLOCK_TOPIC,
                data |-> [blocks |-> honest, receiver |-> PEER_ID]] }
        \cup { [source |-> "p2", topic |-> CHAIN_TOPIC, data |-> [from_peer_id |-> PEER_ID]],
               [source |-> "p1", topic |-> CHAIN_TOPIC, data |-> [from_peer_id |-> "p2"]],
               [source |-> "p1", topic |-> BLOCK_TOPIC,
                data |-> [from_peer_id |-> PEER_ID]] }
        \cup { [source |-> "p1", topic |-> BLOCK_TOPIC, data |-> b] :
                 b \in InboundBlocks(chain, next) }
        \cup { [source |-> "p1", topic |-> CHAIN_TOPIC, data |-> next],
               [source |-> "p1", topic |-> BLOCK_TOPIC, data |-> [text |-> "hello"]] }

\* The lines the terminal may deliver.
Lines ==
    { <<"l", "s", " ", "p">>,
      <<"l", "s", " ", "c">>,
      <<"c", "r", "e", "a", "t", "e", " ", "b", " ", "y">>,
      <<"s", "e", "n", "d", " ", "x">>,
      <<"l", "s">> }

\* main.rs, EventType::Input: the command the match dispatches a line to.
Command(line) ==
    IF line = <<"l", "s", " ", "p">> THEN "ls p"
    ELSE IF starts_with(line, <<"l", "s", " ", "c">>) THEN "ls c"
    ELSE IF starts_with(line, <<"c", "r", "e", "a", "t", "e", " ", "b">>) THEN "create b"
    ELSE IF starts_with(line, <<"s", "e", "n", "d">>) THEN "send"
    ELSE "unknown"

\* get_list_peers listing every peer, discovered or not.
get_list_peers_undiscovered(nodes) ==
    { l \in Peers \X Peers : l[1] # l[2] }

\* get_list_peers: the discovered nodes, each once, in the order the HashSet
\* iterates them.
get_list_peers(nodes) ==
    { l \in { <<>> } \cup { <<p>> : p \in Peers } \cup (Peers \X Peers) :
        /\ Len(l) = Cardinality(nodes)
        /\ { l[i] : i \in 1..Len(l) } = nodes }

\* The peers one mdns event lists.
MdnsLists == { {"p1", "p2"} }

\* What the terminal and the swarm may hand the loop next.  An event that may
\* lengthen the chain is delivered while the chain is shorter than MaxChain.
\* The peers wait for the response to one chain-request before they send the
\* next: a chain-request is delivered while the response channel is empty.
Events(chain, chan) ==
    { [type |-> "input", line |-> l] :
        l \in { l \in Lines : Command(l) # "create b" \/ Len(chain) < MaxChain } }
    \cup { [type |-> "floodsub", msg |-> m] :
             m \in { m \in FloodsubMessages(chain) :
                        /\ \/ DecodesAs(m.data, ChainResponseFields)
                           \/ ~DecodesAs(m.data, BlockFields)
                           \/ Len(chain) < MaxChain
                        /\ \/ DecodesAs(m.data, ChainResponseFields)
                           \/ ~DecodesAs(m.data, LocalChainRequestFields)
                           \/ chan = <<>> } }
    \cup { [type |-> "subscribed"], [type |-> "swarm"] }

(***************************************************************************)
(* The handlers.                                                            *)
(***************************************************************************)
\* handle_create_block with the last block's id given to the new block.
handle_create_block_same_id(chain, cmd, now) ==
    IF ~starts_with(cmd, <<"c", "r", "e", "a", "t", "e", " ", "b">>)
    THEN [panicked |-> FALSE, chain |-> chain, out |-> <<>>, log |-> <<>>]
    ELSE IF chain = <<>>
    THEN [panicked |-> TRUE, chain |-> chain, out |-> <<>>, log |-> <<>>]
    ELSE LET data == SubSeq(cmd, 9, Len(cmd))
             latest_block == Last(chain)
             block == BlockNew(latest_block.id, latest_block.hash, data,
                               ExampleTransactions, now)
         IN  [panicked |-> FALSE,
              chain |-> Append(chain, block),
              out |-> << [topic |-> BLOCK_TOPIC, data |-> block] >>,
              log |-> <<"mining block...", "mined! nonce", "broadcasting new block">>]

\* handle_create_block: strip_prefix("create b") leaves the payload; the
\* chain's last block is read with expect.
handle_create_block(chain, cmd, now) ==
    IF ~starts_with(cmd, <<"c", "r", "e", "a", "t", "e", " ", "b">>)
    THEN [panicked |-> FALSE, chain |-> chain, out |-> <<>>, log |-> <<>>]
    ELSE IF chain = <<>>
    THEN [panicked |-> TRUE, chain |-> chain, out |-> <<>>, log |-> <<>>]
    ELSE LET data == SubSeq(cmd, 9, Len(cmd))
             latest_block == Last(chain)
             block == BlockNew(latest_block.id + 1, latest_block.hash, data,
                               ExampleTransactions, now)
         IN  [panicked |-> FALSE,
              chain |-> Append(chain, block),
              out |-> << [topic |-> BLOCK_TOPIC, data |-> block] >>,
              log |-> <<"mining block...", "mined! nonce", "broadcasting new block">>]

\* inject_event(FloodsubEvent::Message) without the comparison of the receiver.
InjectFloodsubMessage_any_receiver(chain, chan, msg) ==
    IF DecodesAs(msg.data, ChainResponseFields)
    THEN LET r == choose_chain(chain, msg.data.blocks)
         IN  [panicked |-> r.panicked, chain |-> r.chain, chan |-> chan,
              log |-> <<"Response from">> \o r.log]
    ELSE [panicked |-> FALSE, chain |-> chain, chan |-> chan, log |-> <<>>]

\* UnboundedSender::send: the value is queued, or Err where the receiver has
\* been closed or dropped.
send(chan, open, value) ==
    IF open THEN [ok |-> TRUE, chan |-> Append(chan, value)]
    ELSE [ok |-> FALSE, chan |-> chan]

\* inject_event with a response queued for a chain-request of any from_peer_id.
inject_event_any_request(chain, chan, open, msg) ==
    IF DecodesAs(msg.data, ChainResponseFields)
    THEN IF msg.data.receiver = PEER_ID
         THEN LET r == choose_chain(chain, msg.data.blocks)
              IN  [panicked |-> r.panicked, chain |-> r.chain, chan |-> chan,
                   log |-> <<"Response from">> \o r.log]
         ELSE [panicked |-> FALSE, chain |-> chain, chan |-> chan, log |-> <<>>]
    ELSE IF DecodesAs(msg.data, LocalChainRequestFields)
    THEN [panicked |-> FALSE, chain |-> chain,
          chan |-> send(chan, open, [blocks |-> chain, receiver |-> msg.source]).chan,
          log |-> <<"sending local chain to">>]
    ELSE IF DecodesAs(msg.data, BlockFields)
    THEN LET r == try_add_block(chain, msg.data)
         IN  [panicked |-> r.panicked, chain |-> r.chain, chan |-> chan,
              log |-> <<"received new block from">> \o r.log]
    ELSE [panicked |-> FALSE, chain |-> chain, chan |-> chan, log |-> <<>>]

\* inject_event with a record read only from a message of the blocks topic.
inject_event_blocks_topic_only(chain, chan, open, msg) ==
    IF DecodesAs(msg.data, ChainResponseFields)
    THEN IF msg.data.receiver = PEER_ID
         THEN LET r == choose_chain(chain, msg.data.blocks)
              IN  [panicked |-> r.panicked, chain |-> r.chain, chan |-> chan,
                   log |-> <<"Response from">> \o r.log]
         ELSE [panicked |-> FALSE, chain |-> chain, chan |-> chan, log |-> <<>>]
    ELSE IF DecodesAs(msg.data, LocalChainRequestFields)
    THEN LET sent == IF msg.data.from_peer_id = PEER_ID
                     THEN send(chan, open, [blocks |-> chain, receiver |-> msg.source])
                     ELSE [ok |-> TRUE, chan |-> chan]
         IN  [panicked |-> FALSE, chain |-> chain, chan |-> sent.chan,
              log |-> <<"sending local chain to">>
                      \o IF sent.ok THEN <<>>
                         ELSE <<"error sending response via channel">>]
    ELSE IF DecodesAs(msg.data, BlockFields) /\ msg.topic = BLOCK_TOPIC
    THEN LET r == try_add_block(chain, msg.data)
         IN  [panicked |-> r.panicked, chain |-> r.chain, chan |-> chan,
              log |-> <<"received new block from">> \o r.log]
    ELSE [panicked |-> FALSE, chain |-> chain, chan |-> chan, log |-> <<>>]

\* inject_event(FloodsubEvent::Message): what the message does to the chain
\* and to the response channel, whose receiver is open or not.
inject_event(chain, chan, open, msg) ==
    IF DecodesAs(msg.data, ChainResponseFields)
    THEN IF msg.data.receiver = PEER_ID
         THEN LET r == choose_chain(chain, msg.data.blocks)
              IN  [panicked |-> r.panicked, chain |-> r.chain, chan |-> chan,
                   log |-> <<"Response from">> \o r.log]
         ELSE [panicked |-> FALSE, chain |-> chain, chan |-> chan, log |-> <<>>]
    ELSE IF DecodesAs(msg.data, LocalChainRequestFields)
    THEN LET sent == IF msg.data.from_peer_id = PEER_ID
                     THEN send(chan, open, [blocks |-> chain, receiver |-> msg.source])
                     ELSE [ok |-> TRUE, chan |-> chan]
         IN  [panicked |-> FALSE, chain |-> chain, chan |-> sent.chan,
              log |-> <<"sending local chain to">>
                      \o IF sent.ok THEN <<>>
                         ELSE <<"error sending response via channel">>]
    ELSE IF DecodesAs(msg.data, BlockFields)
    THEN LET r == try_add_block(chain, msg.data)
         IN  [panicked |-> r.panicked, chain |-> r.chain, chan |-> chan,
              log |-> <<"received new block from">> \o r.log]
    ELSE [panicked |-> FALSE, chain |-> chain, chan |-> chan, log |-> <<>>]

\* inject_event as main runs it: response_rcv lives as long as the loop does,
\* so the receiver of the response channel is open.
InjectFloodsubMessage(chain, chan, msg) ==
    inject_event(chain, chan, TRUE, msg)

(***************************************************************************)
(* The state after main has built the App, the channels and the swarm.      *)
(***************************************************************************)
Init ==
    /\ blocks = <<>>
    /\ alive = TRUE
    /\ init = "sleeping"
    /\ response_chan = <<>>
    /\ partial_view = {}
    /\ mdns_nodes = {}
    /\ evt = NoEvent
    /\ out = <<>>
    /\ log = <<>>

\* The spawned task: after its sleep it sends the init event.
InitTask ==
    /\ alive
    /\ init = "sleeping"
    /\ init' = "sent"
    /\ UNCHANGED <<blocks, alive, response_chan, partial_view, mdns_nodes, evt, out, log>>

(***************************************************************************)
(* select!: one source yields the next event.                               *)
(***************************************************************************)
\* select! polled while the event yielded before is still being handled.
Idle_while_handling == alive

\* The loop is at select!: the event yielded before has been handled.
Idle == alive /\ evt = NoEvent

Yield(e) ==
    /\ evt' = e
    /\ out' = <<>>
    /\ log' = <<>>

\* stdin yields a line, the swarm a floodsub event or an event of its own.
SelectEvent ==
    /\ Idle
    /\ \E e \in Events(blocks, response_chan) : Yield(e)
    /\ UNCHANGED <<blocks, alive, init, response_chan, partial_view, mdns_nodes>>

\* stdin is closed: next_line yields Ok(None) and the second expect panics.
InputClosed ==
    /\ Idle
    /\ Yield([type |-> "input_closed"])
    /\ alive' = FALSE
    /\ UNCHANGED <<blocks, init, response_chan, partial_view, mdns_nodes>>

SelectResponse ==
    /\ Idle
    /\ response_chan # <<>>
    /\ Yield([type |-> "response", resp |-> Head(response_chan)])
    /\ response_chan' = Tail(response_chan)
    /\ UNCHANGED <<blocks, alive, init, partial_view, mdns_nodes>>

SelectInit ==
    /\ Idle
    /\ init = "sent"
    /\ Yield([type |-> "init"])
    /\ init' = "received"
    /\ UNCHANGED <<blocks, alive, response_chan, partial_view, mdns_nodes>>

\* mdns has found addresses of the listed peers.
MdnsDiscovered ==
    /\ Idle
    /\ \E list \in MdnsLists :
         /\ Yield([type |-> "discovered", list |-> list])
         /\ mdns_nodes' = mdns_nodes \cup list
    /\ UNCHANGED <<blocks, alive, init, response_chan, partial_view>>

\* Addresses of the listed peers have expired; a peer with another address
\* that has not stays among mdns' nodes.
MdnsExpired ==
    /\ Idle
    /\ \E list \in MdnsLists, gone \in SUBSET Peers :
         /\ list \subseteq mdns_nodes
         /\ gone \subseteq list
         /\ Yield([type |-> "expired", list |-> list])
         /\ mdns_nodes' = mdns_nodes \ gone
    /\ UNCHANGED <<blocks, alive, init, response_chan, partial_view>>

(***************************************************************************)
(* The handling of the event yielded.                                       *)
(***************************************************************************)
Done ==
    /\ evt' = NoEvent
    /\ alive' = alive

Panic ==
    /\ evt' = evt
    /\ alive' = FALSE

\* main.rs, EventType::Init
HandleInit ==
    /\ alive
    /\ evt.type = "init"
    /\ \E peers \in get_list_peers(mdns_nodes), now \in Times :
         /\ blocks' = genesis(blocks, now)
         /\ log' = <<"Discovered Peers:", "connected nodes">>
         /\ out' = IF peers # <<>>
                   THEN << [topic |-> CHAIN_TOPIC,
                            data |-> [from_peer_id |-> Last(peers)]] >>
                   ELSE <<>>
    /\ Done
    /\ UNCHANGED <<init, response_chan, partial_view, mdns_nodes>>

\* main.rs, EventType::LocalChainResponse
HandleLocalChainResponse ==
    /\ alive
    /\ evt.type = "response"
    /\ out' = << [topic |-> CHAIN_TOPIC, data |-> evt.resp] >>
    /\ log' = <<>>
    /\ Done
    /\ UNCHANGED <<blocks, init, response_chan, partial_view, mdns_nodes>>

\* main.rs, EventType::Input
HandleInput ==
    /\ alive
    /\ evt.type = "input"
    /\ LET cmd == Command(evt.line)
       IN  IF cmd = "create b"
           THEN \E now \in Times :
                  LET r == handle_create_block(blocks, evt.line, now)
                  IN  /\ blocks' = r.chain
                      /\ out' = r.out
                      /\ log' = r.log
                      /\ IF r.panicked THEN Panic ELSE Done
           ELSE /\ blocks' = blocks
                /\ out' = <<>>
                /\ log' = IF cmd = "ls p" THEN <<"Discovered Peers:">>
                          ELSE IF cmd = "ls c" THEN <<"Local Blockchain:">>
                          ELSE IF cmd = "send" THEN <<"handle_add_transaction()">>
                          ELSE <<"unknown command">>
                /\ Done
    /\ UNCHANGED <<init, response_chan, partial_view, mdns_nodes>>

\* peers.rs, inject_event(FloodsubEvent)
InjectFloodsubEvent ==
    /\ alive
    /\ \/ /\ evt.type = "floodsub"
          /\ LET r == InjectFloodsubMessage(blocks, response_chan, evt.msg)
             IN  /\ blocks' = r.chain
                 /\ response_chan' = r.chan
                 /\ log' = r.log
                 /\ IF r.panicked THEN Panic ELSE Done
       \/ /\ evt.type = "subscribed"
          /\ UNCHANGED <<blocks, response_chan, log>>
          /\ Done
    /\ out' = <<>>
    /\ UNCHANGED <<init, partial_view, mdns_nodes>>

\* MdnsEvent::Expired with every listed peer removed.
remove_expired_unasked(view, nodes, expired_list) ==
    view \ expired_list

\* MdnsEvent::Expired: a listed peer leaves the partial view unless mdns still
\* has the node.
remove_expired(view, nodes, expired_list) ==
    view \ { peer \in expired_list : peer \notin nodes }

\* peers.rs, inject_event(MdnsEvent)
InjectMdnsEvent ==
    /\ alive
    /\ \/ /\ evt.type = "discovered"
          /\ partial_view' = partial_view \cup evt.list
       \/ /\ evt.type = "expired"
          /\ partial_view' = remove_expired(partial_view, mdns_nodes, evt.list)
    /\ Done
    /\ UNCHANGED <<blocks, init, response_chan, mdns_nodes, out, log>>

\* main.rs, the swarm's own events
HandleSwarmEvent ==
    /\ alive
    /\ evt.type = "swarm"
    /\ log' = <<"Unhandled Swarm Event">>
    /\ Done
    /\ UNCHANGED <<blocks, init, response_chan, partial_view, mdns_nodes, out>>

Next ==
    \/ InitTask
    \/ SelectEvent
    \/ InputClosed
    \/ SelectResponse
    \/ SelectInit
    \/ MdnsDiscovered
    \/ MdnsExpired
    \/ HandleInit
    \/ HandleLocalChainResponse
    \/ HandleInput
    \/ InjectFloodsubEvent
    \/ InjectMdnsEvent
    \/ HandleSwarmEvent

Spec == Init /\ [][Next]_vars

(***************************************************************************)
(* The App's functions called on their own.  A call is drawn from the       *)
(* sample inputs below; its action applies the function and leaves what it  *)
(* returned in `out`, what it logged in `log`, and a panic in `alive`.      *)
(***************************************************************************)
UpperCase(s) ==
    [i \in 1..Len(s) |->
        IF \E k \in 1..16 : HexDigits[k] = s[i]
        THEN UpperHexDigits[CHOOSE k \in 1..16 : HexDigits[k] = s[i]]
        ELSE s[i]]

WrongPreviousChain == <<Genesis, [NextOn(Genesis) EXCEPT !.previous_hash = OtherHash]>>

SampleChains ==
    { <<>>, <<Genesis>>, <<ForeignRoot>>, <<Genesis, Genesis>>,
      HonestChain(2), HonestChain(MaxChain), HonestChain(MaxChain + 1),
      <<Genesis, SkipOn(Genesis)>>,
      ForeignChain, ForgedChain, NotHexChain, WrongPreviousChain }

SampleBlocks ==
    LET next == NextOn(Genesis)
        skip == SkipOn(Genesis)
    IN  InboundBlocks(<<Genesis>>, next)
        \cup { [next EXCEPT !.hash = UpperCase(next.hash)],
               [skip EXCEPT !.hash = UpperCase(skip.hash)],
               [next EXCEPT !.hash = <<"0">>],
               [next EXCEPT !.previous_hash = OtherHash, !.hash = NotHex],
               [next EXCEPT !.previous_hash = OtherHash, !.hash = OtherHash],
               [next EXCEPT !.hash = OtherHash] }

\* The values a record's fields may be changed to.
FieldChanges(r) ==
    { <<"id", r.id + 1>>, <<"timestamp", r.timestamp + 1>>,
      <<"previous_hash", OtherHash>>, <<"data", <<"x">>>>,
      <<"transactions", <<>>>>, <<"nonce", r.nonce + 1>>,
      <<"hash", OtherHash>>, <<"hash", NotHex>>, <<"hash", UpperCase(r.hash)>> }

\* The chains that differ from `chain` in one field of one record after the first.
Tampered(chain) ==
    { [chain EXCEPT ![i] = [chain[i] EXCEPT ![fv[1]] = fv[2]]] :
        i \in 2..Len(chain), fv \in UNION { FieldChanges(chain[k]) : k \in 2..Len(chain) } }

\* The messages of a run of inject_event on an AppBehaviour of its own, whose
\* response_sender the caller has given it: the receiver may be closed.
SampleMessages ==
    { [source |-> "p2", topic |-> CHAIN_TOPIC, data |-> [from_peer_id |-> PEER_ID]],
      [source |-> "p1", topic |-> CHAIN_TOPIC, data |-> [from_peer_id |-> "p2"]],
      [source |-> "p1", topic |-> BLOCK_TOPIC, data |-> NextOn(Genesis)],
      [source |-> "p1", topic |-> CHAIN_TOPIC,
       data |-> [blocks |-> HonestChain(2), receiver |-> PEER_ID]],
      [source |-> "p1", topic |-> BLOCK_TOPIC, data |-> [text |-> "hello"]] }

\* The arguments of mine_block.
MineInputs ==
    { [id |-> i, timestamp |-> t, previous_hash |-> p, data |-> d] :
        i \in {0, 1, 4}, t \in {1, 2},
        p \in {ZeroHash, OtherHash, NextOn(Genesis).hash},
        d \in {<<>>, <<"x">>, <<" ", "y">>} }

\* A fork: the chain two nodes hold and the create-block line each is given.
ForkChains == { <<Genesis>>, HonestChain(2), HonestChain(MaxChain + 1), ForeignChain }

ForkLines ==
    { <<"c", "r", "e", "a", "t", "e", " ", "b", " ", "y">>,
      <<"c", "r", "e", "a", "t", "e", " ", "b", " ", "x">>,
      <<"c", "r", "e", "a", "t", "e", " ", "b">> }

\* The arguments of calculate_hash, each with a hash string to compare its
\* digest with: the digest itself, the hash mine_block returns for the
\* fields, and another string.
HashInputs ==
    { [id |-> m.id, timestamp |-> m.timestamp, previous_hash |-> m.previous_hash,
       data |-> m.data, nonce |-> n, hash |-> h] :
        m \in { m \in MineInputs : m.timestamp = 1 }, n \in 0..MaxNonce,
        h \in {"digest", "mined", "other"} }

HashString(h) ==
    IF h.hash = "digest"
    THEN HexEncode(calculate_hash(h.id, h.timestamp, h.previous_hash, h.data, h.nonce))
    ELSE IF h.hash = "mined"
    THEN mine_block(h.id, h.timestamp, h.previous_hash, h.data).hash
    ELSE OtherHash

Calls ==
    { [type |-> "call", fn |-> "calculate_hash", id |-> h.id, timestamp |-> h.timestamp,
       previous_hash |-> h.previous_hash, data |-> h.data, nonce |-> h.nonce,
       hash |-> HashString(h)] : h \in HashInputs }
    \cup
    { [type |-> "call", fn |-> "mine_block", id |-> m.id, timestamp |-> m.timestamp,
       previous_hash |-> m.previous_hash, data |-> m.data] : m \in MineInputs }
    \cup
    { [type |-> "call", fn |-> "choose_chain", local |-> l, remote |-> r] :
        l \in SampleChains, r \in SampleChains }
    \cup { [type |-> "call", fn |-> "is_block_valid", block |-> b, previous_block |-> p] :
             b \in SampleBlocks, p \in {Genesis, NextOn(Genesis), ForeignRoot} }
    \cup { [type |-> "call", fn |-> "is_chain_valid", chain |-> c] :
             c \in SampleChains \cup Tampered(HonestChain(MaxChain + 1))
                   \cup Tampered(<<Genesis, SkipOn(Genesis)>>) }
    \cup { [type |-> "call", fn |-> "try_add_block", chain |-> c, block |-> b] :
             c \in {<<>>, <<Genesis>>, HonestChain(2)}, b \in SampleBlocks }
    \cup { [type |-> "call", fn |-> "fork", chain |-> c, line_a |-> l[1], line_b |-> l[2]] :
             c \in ForkChains, l \in { l \in ForkLines \X ForkLines : l[1] # l[2] } }
    \cup { [type |-> "call", fn |-> "inject_event", chain |-> <<Genesis>>,
            open |-> o, msgs |-> <<m1, m2>>] :
             o \in BOOLEAN, m1 \in SampleMessages, m2 \in SampleMessages }

InitFn ==
    /\ evt \in Calls
    /\ blocks = IF evt.fn \in {"try_add_block", "inject_event", "fork"}
                THEN evt.chain ELSE <<>>
    /\ alive = TRUE
    /\ init = "sleeping"
    /\ response_chan = <<>>
    /\ partial_view = {}
    /\ mdns_nodes = {}
    /\ out = <<>>
    /\ log = <<>>

Return(value, lines) ==
    /\ evt' = [evt EXCEPT !.type = "returned"]
    /\ out' = <<value>>
    /\ log' = lines
    /\ alive' = alive

Unwind(lines) ==
    /\ evt' = evt
    /\ out' = <<>>
    /\ log' = lines
    /\ alive' = FALSE

CallChooseChain ==
    /\ alive
    /\ evt.type = "call"
    /\ evt.fn = "choose_chain"
    /\ LET r == choose_chain(evt.local, evt.remote)
       IN  IF r.panicked THEN Unwind(r.log) ELSE Return(r.chain, r.log)
    /\ UNCHANGED <<blocks, init, response_chan, partial_view, mdns_nodes>>

CallIsBlockValid ==
    /\ alive
    /\ evt.type = "call"
    /\ evt.fn = "is_block_valid"
    /\ LET r == is_block_valid(evt.block, evt.previous_block)
       IN  IF r = "panic" THEN Unwind(<<>>) ELSE Return(r = "valid", WarnOf(r))
    /\ UNCHANGED <<blocks, init, response_chan, partial_view, mdns_nodes>>

CallIsChainValid ==
    /\ alive
    /\ evt.type = "call"
    /\ evt.fn = "is_chain_valid"
    /\ LET r == is_chain_valid(evt.chain)
       IN  IF r = "panic" THEN Unwind(<<>>)
           ELSE Return(r = "valid", WarnOf(FirstFailure(evt.chain, 2)))
    /\ UNCHANGED <<blocks, init, response_chan, partial_view, mdns_nodes>>

CallTryAddBlock ==
    /\ alive
    /\ evt.type = "call"
    /\ evt.fn = "try_add_block"
    /\ LET r == try_add_block(blocks, evt.block)
       IN  /\ blocks' = r.chain
           /\ IF r.panicked THEN Unwind(r.log) ELSE Return(r.chain, r.log)
    /\ UNCHANGED <<init, response_chan, partial_view, mdns_nodes>>

\* inject_event called with the next of the messages; the lines logged add up.
CallInjectEvent ==
    /\ alive
    /\ evt.type = "call"
    /\ evt.fn = "inject_event"
    /\ LET r == inject_event(blocks, response_chan, evt.open, Head(evt.msgs))
           rest == Tail(evt.msgs)
       IN  /\ blocks' = r.chain
           /\ response_chan' = r.chan
           /\ log' = log \o r.log
           /\ out' = <<>>
           /\ IF r.panicked
              THEN /\ evt' = evt
                   /\ alive' = FALSE
              ELSE /\ evt' = [evt EXCEPT !.msgs = rest,
                                         !.type = IF rest = <<>> THEN "returned" ELSE "call"]
                   /\ alive' = alive
    /\ UNCHANGED <<init, partial_view, mdns_nodes>>

\* mine_block returns once its loop has found a nonce.
CallMineBlock ==
    /\ alive
    /\ evt.type = "call"
    /\ evt.fn = "mine_block"
    /\ LET mined == mine_block(evt.id, evt.timestamp, evt.previous_hash, evt.data)
       IN  /\ mined.found
           /\ Return([nonce |-> mined.nonce, hash |-> mined.hash],
                     <<"mining block...", "mined! nonce">>)
    /\ UNCHANGED <<blocks, init, response_chan, partial_view, mdns_nodes>>

\* Two nodes a and b hold evt.chain.  Each handles its create-block line, each
\* then hears the block the other has published, and each is then handed the
\* other's chain for choose_chain.  The node of the model is a.
CallFork ==
    /\ alive
    /\ evt.type = "call"
    /\ evt.fn = "fork"
    /\ \E now \in Times :
       \E a \in {handle_create_block(evt.chain, evt.line_a, now)},
          b \in {handle_create_block(evt.chain, evt.line_b, now)} :
       \E from_b \in {[source |-> "p1", topic |-> b.out[1].topic, data |-> b.out[1].data]},
          from_a \in {[source |-> "p2", topic |-> a.out[1].topic, data |-> a.out[1].data]} :
       \E heard_a \in {inject_event(a.chain, <<>>, TRUE, from_b)},
          heard_b \in {inject_event(b.chain, <<>>, TRUE, from_a)} :
       \E chosen_a \in {choose_chain(heard_a.chain, heard_b.chain)},
          chosen_b \in {choose_chain(heard_b.chain, heard_a.chain)} :
         /\ blocks' = chosen_a.chain
         /\ IF heard_a.panicked \/ heard_b.panicked \/ chosen_a.panicked
               \/ chosen_b.panicked
            THEN Unwind(heard_a.log)
            ELSE Return([chain_a |-> a.chain, chain_b |-> b.chain,
                         heard_a |-> heard_a.chain, heard_b |-> heard_b.chain,
                         chosen_a |-> chosen_a.chain, chosen_b |-> chosen_b.chain],
                        heard_a.log)
    /\ UNCHANGED <<init, response_chan, partial_view, mdns_nodes>>

\* calculate_hash, hex-encoded as mine_block and is_block_valid encode it.
CallCalculateHash ==
    /\ alive
    /\ evt.type = "call"
    /\ evt.fn = "calculate_hash"
    /\ Return(HexEncode(calculate_hash(evt.id, evt.timestamp, evt.previous_hash,
                                       evt.data, evt.nonce)), <<>>)
    /\ UNCHANGED <<blocks, init, response_chan, partial_view, mdns_nodes>>

NextFn ==
    \/ CallCalculateHash
    \/ CallFork
    \/ CallMineBlock
    \/ CallChooseChain
    \/ CallIsBlockValid
    \/ CallIsChainValid
    \/ CallTryAddBlock
    \/ CallInjectEvent

SpecFn == InitFn /\ [][NextFn]_vars

(***************************************************************************)
(* Properties.                                                              *)
(***************************************************************************)
\* The three checks of a record against the record before it, as the
\* specification words them.
LinksTo(candidate, previous) == candidate.previous_hash = previous.hash

MeetsDifficulty(candidate) ==
    /\ HexDecode(candidate.hash).ok
    /\ starts_with(hash_to_binary_representation(HexDecode(candidate.hash).bytes),
                   DIFFICULTY_PREFIX)

DigestMatches(candidate) ==
    HexEncode(calculate_hash(candidate.id, candidate.timestamp, candidate.previous_hash,
                             candidate.data, candidate.nonce)) = candidate.hash

\* A gossip payload that inject_event hands to try_add_block.
IsRecord(data) ==
    /\ ~DecodesAs(data, ChainResponseFields)
    /\ ~DecodesAs(data, LocalChainRequestFields)
    /\ DecodesAs(data, BlockFields)

\* This step is the handling of the event `evt`: the handler returns or panics.
Handles == alive /\ evt # NoEvent /\ (evt' = NoEvent \/ ~alive')

\* A call of `fn` has been made: it has returned or it has panicked.
Called(fn) == evt.fn = fn /\ (evt.type = "returned" \/ ~alive)

\* C1: try_add_block of a candidate whose previous_hash differs from the hash
\* of the chain's tip, and of any candidate that is_block_valid does not
\* accept against the tip, leaves the chain as it was: same length, same
\* records.
C1_RejectedBlockLeavesChain ==
    [][ ( /\ Handles
          /\ evt.type = "floodsub"
          /\ IsRecord(evt.msg.data)
          /\ blocks # <<>>
          /\ \/ ~LinksTo(evt.msg.data, Last(blocks))
             \/ is_block_valid(evt.msg.data, Last(blocks)) # "valid" )
        => blocks' = blocks ]_vars

C1_Witness ==
    /\ alive
    /\ evt = NoEvent
    /\ blocks # <<>>
    /\ log = <<"received new block from", "has wrong previous hash",
               "could not add block - invalid">>

\* C2: choose_chain of two chains that both pass is_chain_valid returns the
\* remote chain exactly when it is the longer one and the local chain
\* otherwise (so on a tie), and the length of the result is the greater of
\* the two lengths.
C2_BothValidLongerWins ==
    ( /\ Called("choose_chain")
      /\ is_chain_valid(evt.local) = "valid"
      /\ is_chain_valid(evt.remote) = "valid" )
    => /\ evt.type = "returned"
       /\ out = << IF Len(evt.remote) > Len(evt.local) THEN evt.remote ELSE evt.local >>
       /\ Len(out[1]) >= Len(evt.local)
       /\ Len(out[1]) >= Len(evt.remote)

C2_Witness ==
    /\ Called("choose_chain")
    /\ is_chain_valid(evt.local) = "valid"
    /\ is_chain_valid(evt.remote) = "valid"
    /\ Len(evt.local) = Len(evt.remote)
    /\ evt.local # evt.remote
    /\ out = <<evt.local>>

\* C3: choose_chain of two chains of which exactly one passes is_chain_valid
\* returns that one, whatever the two lengths are.
C3_OnlyValidChainReturned ==
    ( /\ Called("choose_chain")
      /\ (is_chain_valid(evt.local) = "valid") # (is_chain_valid(evt.remote) = "valid") )
    => /\ evt.type = "returned"
       /\ out = << IF is_chain_valid(evt.local) = "valid" THEN evt.local ELSE evt.remote >>

\* C4: where neither the node's chain nor the chain of a chain-response passes
\* is_chain_valid, choose_chain returns no chain: the node halts with its
\* chain as it was, and no step of a halted node changes the chain.
C4_BothInvalidHalts ==
    [][ /\ ( /\ Handles
             /\ evt.type = "floodsub"
             /\ DecodesAs(evt.msg.data, ChainResponseFields)
             /\ evt.msg.data.receiver = PEER_ID
             /\ is_chain_valid(blocks) # "valid"
             /\ is_chain_valid(evt.msg.data.blocks) # "valid" )
           => (~alive' /\ blocks' = blocks)
        /\ ~alive => (~alive' /\ blocks' = blocks) ]_vars

C4_Witness ==
    /\ ~alive
    /\ evt.type = "floodsub"
    /\ DecodesAs(evt.msg.data, ChainResponseFields)
    /\ evt.msg.data.receiver = PEER_ID
    /\ is_chain_valid(blocks) = "invalid"
    /\ is_chain_valid(evt.msg.data.blocks) = "invalid"
    /\ blocks # evt.msg.data.blocks

\* C5: is_block_valid returns true exactly when the candidate's previous_hash
\* is the hash of the previous record, the bit string of its decoded hash
\* starts with the difficulty prefix, and the hex digest of its fields is its
\* hash; where it rejects, the reason it reports is that of the first of the
\* three checks, in this order, that fails.
C5_ThreeChecksInOrder ==
    Called("is_block_valid")
    => LET candidate == evt.block
           previous == evt.previous_block
       IN  /\ (evt.type = "returned" /\ out = <<TRUE>>)
                <=> ( /\ LinksTo(candidate, previous)
                      /\ MeetsDifficulty(candidate)
                      /\ DigestMatches(candidate) )
           /\ (evt.type = "returned" /\ out = <<FALSE>>)
                => log = << IF ~LinksTo(candidate, previous)
                               THEN "has wrong previous hash"
                            ELSE IF ~MeetsDifficulty(candidate)
                               THEN "is not the next block after the latest"
                            ELSE "has invalid hash" >>
           /\ ~LinksTo(candidate, previous)
                => (evt.type = "returned" /\ out = <<FALSE>>)

C5_Witness ==
    /\ Called("is_block_valid")
    /\ LinksTo(evt.block, evt.previous_block)
    /\ MeetsDifficulty(evt.block)
    /\ ~DigestMatches(evt.block)
    /\ out = <<FALSE>>
    /\ log = <<"has invalid hash">>

\* C6: in every state of a node, every record of its chain after the first
\* has the hash of the record before it as previous_hash, the hex digest of
\* its own fields as hash, and a hash whose bit string starts with the
\* difficulty prefix: the chain passes is_chain_valid.
C6_StoredChainValid ==
    /\ \A i \in 2..Len(blocks) :
         /\ LinksTo(blocks[i], blocks[i - 1])
         /\ MeetsDifficulty(blocks[i])
         /\ DigestMatches(blocks[i])
    /\ is_chain_valid(blocks) = "valid"

\* C7: in every state of a node, every record of its chain after the first
\* has the id of the record before it plus one.
C7_IdsConsecutive ==
    \A i \in 2..Len(blocks) : blocks[i].id = blocks[i - 1].id + 1

\* A record with the fixed fields of the genesis record.
GenesisShaped(r) ==
    /\ r.id = 0
    /\ r.hash = ZeroHash
    /\ r.previous_hash = ZeroHash
    /\ r.transactions = <<>>

\* C8: in every state after the init event has been handled, the chain is not
\* empty, its first record is the genesis record, and no later record of it
\* is genesis-shaped.
C8_GenesisFirstAndOnlyFirst ==
    (init = "received" /\ evt.type # "init")
    => /\ blocks # <<>>
       /\ GenesisShaped(blocks[1])
       /\ \A i \in 2..Len(blocks) : ~GenesisShaped(blocks[i])

\* `changed` is `chain` with one field of one record after the first changed.
OneFieldChanged(chain, changed) ==
    /\ Len(changed) = Len(chain)
    /\ \E i \in 2..Len(chain) :
         /\ \A j \in 1..Len(chain) : j # i => changed[j] = chain[j]
         /\ Cardinality({ f \in BlockFields : changed[i][f] # chain[i][f] }) = 1

\* C9: a chain that passes is_chain_valid no longer passes it once one field
\* (id, timestamp, previous_hash, data, transactions, nonce or hash) of one of
\* its records after the first has been changed.
C9_AnyFieldChangeInvalidates ==
    ( /\ Called("is_chain_valid")
      /\ \E chain \in SampleChains :
           /\ is_chain_valid(chain) = "valid"
           /\ OneFieldChanged(chain, evt.chain) )
    => out # <<TRUE>>

\* C10: the handling of a chain-response whose receiver is the node leaves as
\* the node's chain what choose_chain returns for the chain before and the
\* chain received (the chain before, where choose_chain halts the node); the
\* handling of one with another receiver leaves the chain and the response
\* channel as they were, and reads the payload neither as a chain-request nor
\* as a record.
C10_ChainResponseHandling ==
    [][ ( /\ Handles
          /\ evt.type = "floodsub"
          /\ DecodesAs(evt.msg.data, ChainResponseFields) )
        => IF evt.msg.data.receiver = PEER_ID
           THEN LET r == choose_chain(blocks, evt.msg.data.blocks)
                IN  /\ alive' = ~r.panicked
                    /\ blocks' = IF r.panicked THEN blocks ELSE r.chain
                    /\ response_chan' = response_chan
           ELSE /\ alive'
                /\ blocks' = blocks
                /\ response_chan' = response_chan
                /\ out' = <<>>
                /\ log' = <<>> ]_vars

C10_Witness ==
    /\ alive
    /\ evt = NoEvent
    /\ log = <<"Response from">>
    /\ blocks = ForeignChain

\* A gossip payload that inject_event reads as a chain-request.
IsRequest(data) ==
    /\ ~DecodesAs(data, ChainResponseFields)
    /\ DecodesAs(data, LocalChainRequestFields)

\* A gossip payload that is neither chain-response, chain-request nor record.
MatchesNone(data) ==
    /\ ~DecodesAs(data, ChainResponseFields)
    /\ ~DecodesAs(data, LocalChainRequestFields)
    /\ ~DecodesAs(data, BlockFields)

\* C11: a step queues a chain-response exactly when it is the handling of a
\* chain-request whose from_peer_id is the node's identity; the response
\* queued has the request's origin as receiver and the node's whole chain of
\* that moment as blocks; the handling of a chain-request leaves the chain as
\* it was.
C11_RequestQueuesResponse ==
    [][ /\ (Len(response_chan') > Len(response_chan))
             <=> ( /\ Handles
                   /\ evt.type = "floodsub"
                   /\ IsRequest(evt.msg.data)
                   /\ evt.msg.data.from_peer_id = PEER_ID )
        /\ ( /\ Handles
             /\ evt.type = "floodsub"
             /\ IsRequest(evt.msg.data) )
           => /\ blocks' = blocks
              /\ alive'
              /\ evt.msg.data.from_peer_id = PEER_ID
                   => response_chan' = Append(response_chan,
                                              [blocks |-> blocks,
                                               receiver |-> evt.msg.source]) ]_vars

C11_Witness ==
    /\ alive
    /\ evt = NoEvent
    /\ log = <<"sending local chain to">>
    /\ blocks # <<>>
    /\ response_chan = << [blocks |-> blocks, receiver |-> "p2"] >>

\* C12: the handling of a payload that is a record appends the record where
\* it passes the three checks against the chain's last record and leaves the
\* chain as it was where it does not; the handling of a payload that is
\* neither chain-response, chain-request nor record leaves the chain and the
\* response channel as they were and publishes nothing.
C12_RecordsAddedOthersDropped ==
    [][ ( /\ Handles
          /\ evt.type = "floodsub" )
        => /\ IsRecord(evt.msg.data)
              => /\ response_chan' = response_chan
                 /\ out' = <<>>
                 /\ blocks' = IF /\ blocks # <<>>
                                 /\ LinksTo(evt.msg.data, Last(blocks))
                                 /\ MeetsDifficulty(evt.msg.data)
                                 /\ DigestMatches(evt.msg.data)
                              THEN Append(blocks, evt.msg.data)
                              ELSE blocks
           /\ MatchesNone(evt.msg.data)
              => /\ blocks' = blocks
                 /\ response_chan' = response_chan
                 /\ out' = <<>>
                 /\ alive' ]_vars

C12_Witness ==
    /\ alive
    /\ evt = NoEvent
    /\ log = <<"received new block from">>
    /\ Len(blocks) = 2
    /\ blocks[1] = Genesis
    /\ blocks[2] = NextOn(Genesis)

\* C13: the handling of an inbound record, whatever its fields hold, and of a
\* payload that is neither chain-response, chain-request nor record never
\* halts the node, whether the init event has been handled or not.
C13_InboundRecordNeverHalts ==
    [][ ( /\ Handles
          /\ evt.type = "floodsub"
          /\ IsRecord(evt.msg.data) \/ MatchesNone(evt.msg.data) )
        => alive' ]_vars

\* The send of a chain-response has failed: inject_event has logged the error.
SendFailed ==
    \E i \in 1..Len(log) : log[i] = "error sending response via channel"

C15_InitHandledOnce ==
    [][ /\ (init = "received" /\ evt.type # "init") => evt'.type # "init"
        /\ ( /\ Handles
             /\ evt.type = "init" )
           => /\ alive'
              /\ Len(blocks') = Len(blocks) + 1
              /\ SubSeq(blocks', 1, Len(blocks)) = blocks
              /\ GenesisShaped(Last(blocks'))
              /\ Last(blocks').data = GenesisData
              /\ IF mdns_nodes = {}
                 THEN out' = <<>>
                 ELSE /\ Len(out') = 1
                      /\ out'[1].topic = CHAIN_TOPIC
                      /\ DOMAIN out'[1].data = {"from_peer_id"}
                      /\ out'[1].data.from_peer_id \in mdns_nodes ]_vars

C15_Witness ==
    /\ alive
    /\ evt = NoEvent
    /\ init = "received"
    /\ blocks = <<Genesis>>
    /\ mdns_nodes = Peers
    /\ out = << [topic |-> CHAIN_TOPIC, data |-> [from_peer_id |-> "p1"]] >>

\* C16: the handling of a create-block command on a chain whose last record is
\* T appends one record r, with T's id plus one as id, T's hash as
\* previous_hash and the text of the line after "create b" as data, which
\* passes the three checks against T; it publishes this record, once, on the
\* blocks topic, and leaves the records before it as they were.
C16_CreateBlockAppendsAndPublishes ==
    [][ ( /\ Handles
          /\ evt.type = "input"
          /\ starts_with(evt.line, <<"c", "r", "e", "a", "t", "e", " ", "b">>)
          /\ blocks # <<>> )
        => LET T == Last(blocks)
               r == Last(blocks')
           IN  /\ alive'
               /\ Len(blocks') = Len(blocks) + 1
               /\ SubSeq(blocks', 1, Len(blocks)) = blocks
               /\ r.id = T.id + 1
               /\ r.previous_hash = T.hash
               /\ r.data = SubSeq(evt.line, 9, Len(evt.line))
               /\ LinksTo(r, T)
               /\ MeetsDifficulty(r)
               /\ DigestMatches(r)
               /\ out' = << [topic |-> BLOCK_TOPIC, data |-> r] >> ]_vars

C16_Witness ==
    /\ alive
    /\ evt = NoEvent
    /\ log = <<"mining block...", "mined! nonce", "broadcasting new block">>
    /\ Len(blocks) = 2
    /\ blocks[2].data = <<" ", "y">>
    /\ out = << [topic |-> BLOCK_TOPIC, data |-> blocks[2]] >>

\* The digest of the fields with this nonce meets the difficulty prefix.
NonceMeets(id, timestamp, previous_hash, data, nonce) ==
    starts_with(hash_to_binary_representation(
                    calculate_hash(id, timestamp, previous_hash, data, nonce)),
                DIFFICULTY_PREFIX)

\* The record built from the fields mine_block was called with and the pair
\* it returned.
MinedRecord ==
    [id |-> evt.id, timestamp |-> evt.timestamp, previous_hash |-> evt.previous_hash,
     data |-> evt.data, nonce |-> out[1].nonce, hash |-> out[1].hash,
     transactions |-> ExampleTransactions]

\* C17: where some nonce meets the difficulty prefix for the fields given,
\* mine_block returns, and the record built from the fields and the pair
\* returned passes is_block_valid against every previous record whose hash is
\* the previous_hash given.
C17_MinedRecordIsValid ==
    /\ ( /\ alive
         /\ evt.type = "call"
         /\ evt.fn = "mine_block"
         /\ \E n \in 0..MaxNonce :
              NonceMeets(evt.id, evt.timestamp, evt.previous_hash, evt.data, n) )
       => ENABLED CallMineBlock
    /\ Called("mine_block")
       => /\ evt.type = "returned"
          /\ \A previous \in {Genesis, ForeignRoot, NextOn(Genesis)} :
               is_block_valid(MinedRecord,
                              [previous EXCEPT !.hash = evt.previous_hash]) = "valid"

C17_Witness ==
    /\ Called("mine_block")
    /\ evt.previous_hash = OtherHash
    /\ out[1].nonce = 1
    /\ is_block_valid(MinedRecord, ForeignRoot) = "valid"

\* C18: mine_block returns the least nonce, counted from 0, whose digest meets
\* the difficulty prefix: the prefix is met at the nonce returned and at no
\* nonce below it, and the hash returned is the hex encoding of the digest at
\* the nonce returned.
C18_SmallestNonce ==
    Called("mine_block")
    => LET n == out[1].nonce
       IN  /\ n >= 0
           /\ NonceMeets(evt.id, evt.timestamp, evt.previous_hash, evt.data, n)
           /\ \A k \in 0..(n - 1) :
                ~NonceMeets(evt.id, evt.timestamp, evt.previous_hash, evt.data, k)
           /\ out[1].hash = HexEncode(calculate_hash(evt.id, evt.timestamp,
                                                     evt.previous_hash, evt.data, n))

C18_Witness ==
    /\ Called("mine_block")
    /\ out[1].nonce = 2
    /\ ~NonceMeets(evt.id, evt.timestamp, evt.previous_hash, evt.data, 0)
    /\ ~NonceMeets(evt.id, evt.timestamp, evt.previous_hash, evt.data, 1)

\* C19: try_add_block of a candidate that passes the three checks against the
\* chain's last record appends it: the chain is one record longer, its last
\* record is the candidate, and the records before it are as they were.
C19_ValidBlockAppended ==
    ( /\ Called("try_add_block")
      /\ evt.chain # <<>>
      /\ LinksTo(evt.block, Last(evt.chain))
      /\ MeetsDifficulty(evt.block)
      /\ DigestMatches(evt.block) )
    => /\ evt.type = "returned"
       /\ Len(blocks) = Len(evt.chain) + 1
       /\ Last(blocks) = evt.block
       /\ SubSeq(blocks, 1, Len(evt.chain)) = evt.chain
       /\ log = <<>>

C19_Witness ==
    /\ Called("try_add_block")
    /\ evt.chain = <<Genesis>>
    /\ evt.block.id = 1
    /\ evt.block.previous_hash = Genesis.hash
    /\ Len(blocks) = 2
    /\ blocks[2] = evt.block

\* C20: is_chain_valid returns true exactly when every record after the first
\* passes is_block_valid against the record before it; the first record is
\* checked against nothing, so the empty chain and every chain of one record
\* are valid.
C20_ChainValidIffAllPairsValid ==
    Called("is_chain_valid")
    => /\ (evt.type = "returned" /\ out = <<TRUE>>)
            <=> \A i \in 2..Len(evt.chain) :
                    is_block_valid(evt.chain[i], evt.chain[i - 1]) = "valid"
       /\ Len(evt.chain) <= 1 => (evt.type = "returned" /\ out = <<TRUE>>)
       /\ (\A i \in 2..Len(evt.chain) :
               is_block_valid(evt.chain[i], evt.chain[i - 1]) # "panic")
            => evt.type = "returned"

C20_Witness ==
    /\ Called("is_chain_valid")
    /\ evt.chain = <<ForeignRoot>>
    /\ out = <<TRUE>>

\* C21: where two nodes that hold the same chain each mine a different record
\* on its last record, both chains pass is_chain_valid, each node rejects the
\* record the other has published and keeps its chain, and choose_chain of the
\* two chains, which are equally long, returns at each node the node's own.
C21_ForkKeepsOwnChain ==
    Called("fork")
    => /\ evt.type = "returned"
       /\ LET f == out[1]
          IN  /\ Len(f.chain_a) = Len(evt.chain) + 1
              /\ Len(f.chain_b) = Len(evt.chain) + 1
              /\ Last(f.chain_a) # Last(f.chain_b)
              /\ LinksTo(Last(f.chain_a), Last(evt.chain))
              /\ LinksTo(Last(f.chain_b), Last(evt.chain))
              /\ is_chain_valid(f.chain_a) = "valid"
              /\ is_chain_valid(f.chain_b) = "valid"
              /\ f.heard_a = f.chain_a
              /\ f.heard_b = f.chain_b
              /\ f.chosen_a = f.chain_a
              /\ f.chosen_b = f.chain_b
              /\ blocks = f.chain_a
              /\ log = <<"received new block from", "has wrong previous hash",
                         "could not add block - invalid">>

C21_Witness ==
    /\ Called("fork")
    /\ evt.type = "returned"
    /\ evt.chain = HonestChain(2)
    /\ Len(out[1].chosen_a) = 3
    /\ out[1].chosen_a # out[1].chosen_b
    /\ is_chain_valid(out[1].chosen_b) = "valid"

\* C22: the handling of a discovered event puts every peer it lists into the
\* partial view; the handling of an expired event takes a listed peer out of
\* the partial view exactly when mdns no longer has the node at that moment;
\* no other step changes the partial view.
C22_PeerSetFollowsDiscovery ==
    [][ /\ (Handles /\ evt.type = "discovered")
           => partial_view' = partial_view \cup evt.list
        /\ (Handles /\ evt.type = "expired")
           => /\ \A p \in evt.list \cap partial_view :
                    (p \notin partial_view') <=> (p \notin mdns_nodes)
              /\ \A p \in Peers \ (evt.list \cap partial_view) :
                    (p \in partial_view') <=> (p \in partial_view)
        /\ ~(Handles /\ evt.type \in {"discovered", "expired"})
           => partial_view' = partial_view ]_vars

C22_Witness ==
    /\ alive
    /\ evt = NoEvent
    /\ mdns_nodes = {"p1"}
    /\ partial_view = {"p1"}

\* mine_block, called with the fields, returns this nonce with this hash.
MinedAs(id, timestamp, previous_hash, data, nonce, hash) ==
    LET mined == mine_block(id, timestamp, previous_hash, data)
    IN  /\ mined.found
        /\ mined.nonce = nonce
        /\ mined.hash = hash

\* C23: the hex-encoded digest of the fields (id, timestamp, previous_hash,
\* data, nonce) is the hash string exactly when mine_block, called with id,
\* timestamp, previous_hash and data, has returned this nonce with this hash.
C23_DigestIffMined ==
    Called("calculate_hash")
    => ( (out[1] = evt.hash)
         <=> MinedAs(evt.id, evt.timestamp, evt.previous_hash, evt.data,
                     evt.nonce, evt.hash) )

\* C23 as amended: the hex-encoded digest of the fields is the hash string and
\* the nonce is the least one whose digest meets the difficulty prefix,
\* exactly when mine_block has returned this nonce with this hash.
C23_DigestOfLeastNonceIffMined ==
    Called("calculate_hash")
    => ( ( /\ out[1] = evt.hash
           /\ NonceMeets(evt.id, evt.timestamp, evt.previous_hash, evt.data, evt.nonce)
           /\ \A k \in 0..(evt.nonce - 1) :
                ~NonceMeets(evt.id, evt.timestamp, evt.previous_hash, evt.data, k) )
         <=> MinedAs(evt.id, evt.timestamp, evt.previous_hash, evt.data,
                     evt.nonce, evt.hash) )

C23_Witness ==
    /\ Called("calculate_hash")
    /\ evt.nonce = 1
    /\ out[1] = evt.hash
    /\ MinedAs(evt.id, evt.timestamp, evt.previous_hash, evt.data, evt.nonce, evt.hash)

\* What `published` holds is one chain-response on the chains topic.
PublishesResponse(published) ==
    /\ Len(published) = 1
    /\ published[1].topic = CHAIN_TOPIC
    /\ DecodesAs(published[1].data, ChainResponseFields)

\* C24: every chain-response queued is taken by the loop and published on the
\* chains topic, once, and nothing is published as a chain-response that was
\* not queued.  With select! fair to its sources a queued response is taken
\* as long as the loop runs, so the claim is that the loop takes the responses
\* in the order queued, publishes each one taken as it is, publishes no other,
\* and that no halt of the node (the end of the input aside) leaves a
\* response in the queue.
C24_QueuedResponsePublishedOnce ==
    [][ /\ (evt'.type = "response" /\ evt.type # "response")
           => /\ response_chan # <<>>
              /\ evt'.resp = Head(response_chan)
              /\ response_chan' = Tail(response_chan)
        /\ (Handles /\ evt.type = "response")
           => /\ alive'
              /\ out' = << [topic |-> CHAIN_TOPIC, data |-> evt.resp] >>
        /\ (out' # out /\ PublishesResponse(out'))
           => (Handles /\ evt.type = "response")
        /\ (~alive' /\ evt'.type # "input_closed")
           => response_chan' = <<>> ]_vars

\* The line is a create-block command.
IsCreateBlock(line) == starts_with(line, <<"c", "r", "e", "a", "t", "e", " ", "b">>)

\* C25: the loop handles one event at a time and to its end: while an event is
\* being handled no source yields another; the chain changes in the handling
\* of an event only; and the record a create-block command appends is mined
\* on the record that is the chain's last when it is appended.
C25_OneEventAtATime ==
    [][ /\ (alive /\ evt # NoEvent) => (evt' = NoEvent \/ evt' = evt)
        /\ blocks' # blocks => Handles
        /\ ( /\ Handles
             /\ evt.type = "input"
             /\ IsCreateBlock(evt.line)
             /\ blocks # <<>> )
           => /\ SubSeq(blocks', 1, Len(blocks)) = blocks
              /\ Len(blocks') = Len(blocks) + 1
              /\ Last(blocks').previous_hash = Last(blocks).hash ]_vars

C25_Witness ==
    /\ alive
    /\ evt.type = "input"
    /\ IsCreateBlock(evt.line)
    /\ blocks # <<>>
    /\ init = "sent"
    /\ response_chan # <<>>

\* C26: a payload that arrives on the chains topic is read as a chain-response
\* or a chain-request only, so a record that arrives there is not handed to
\* try_add_block; a payload that arrives on the blocks topic is read as a
\* record only, so a chain-response or chain-request that arrives there
\* neither replaces the chain nor queues a response.
C26_ClassifiedByTopic ==
    [][ ( /\ Handles
          /\ evt.type = "floodsub" )
        => /\ (evt.msg.topic = CHAIN_TOPIC /\ IsRecord(evt.msg.data))
              => blocks' = blocks
           /\ ( /\ evt.msg.topic = BLOCK_TOPIC
                /\ \/ DecodesAs(evt.msg.data, ChainResponseFields)
                   \/ IsRequest(evt.msg.data) )
              => /\ blocks' = blocks
                 /\ response_chan' = response_chan ]_vars

\* C27: the chain never gets shorter: after every step it is as long as
\* before, or longer.
C27_LengthNeverDecreases ==
    [][ Len(blocks') >= Len(blocks) ]_vars

\* C28: whenever the node handles a create-block command or an inbound
\* record, its chain is not empty, so that the read of its last record does
\* not fail, also before the init event has been handled.
C28_TipExistsWhenRead ==
    [][ ( /\ Handles
          /\ \/ evt.type = "input" /\ IsCreateBlock(evt.line)
             \/ evt.type = "floodsub" /\ IsRecord(evt.msg.data) )
        => blocks # <<>> ]_vars

====
